---- MODULE Spec2Model ----
(***************************************************************************)
(* A model of the SFSE runtime injector: the two import-table hooks        *)
(* installed by StartSFSE (sfse/sfse.cpp), the one-time preinit and        *)
(* initialize phases behind them, and the table walks and small helpers of *)
(* sfse_common/Utilities.cpp (getIATAddr, getResourceLibraryProcAddress,   *)
(* getObjectClassName, getConfigOption, getConfigOption_u32).              *)
(***************************************************************************)
EXTENDS Integers, Sequences, FiniteSets, TLC

VARIABLES
    \* ---- the injector's life cycle (sfse/sfse.cpp) ----
    host,                    \* the host image: base, import table, the cells its startup code calls through
    mem,                     \* the host's import address table: cell address -> function pointer
    initterm_e_Original,     \* _initterm_e_Original
    cmdline_Original,        \* _get_narrow_winmain_command_line_Original
    preinitRunOnce,          \* SFSE_Preinit's static runOnce
    initRunOnce,             \* SFSE_Initialize's static runOnce
    g_branchTrampoline,      \* "none" | "created" | "failed"
    g_localTrampoline,       \* "none" | "created" | "failed"
    events,                  \* the calls made on g_pluginManager and the downstream hook installers, in order
    s_log,                   \* DebugLog::s_log: "open" or "null"
    logFile,                 \* what has been written to the log file
    console,                 \* what has been written to stdout
    attaches,                \* history: calls of StartSFSE that returned
    writes,                  \* history: cell address -> number of safeWrite64 calls on it
    calls,                   \* history: calls the host made through each slot, and those that entered a hook
    bodyRuns,                \* history: runs of the bodies of SFSE_Preinit / SFSE_Initialize past the latch
    creates,                 \* history: calls of create on each trampoline
    lastCall,                \* the last call the host made through one of the two slots
    crashed,                 \* the process died (stack exhausted, or a call through nullptr)
    \* ---- getIATAddr ----
    iatIn, iatOut,
    \* ---- getResourceLibraryProcAddress ----
    expIn, expOut,
    \* ---- getObjectClassName ----
    rttiIn, rttiOut,
    \* ---- getConfigOption / getConfigOption_u32 ----
    cfgEnv, s_configPath, cfgCall, cfgOut

lifeQuiet == <<host, mem, initterm_e_Original, cmdline_Original, preinitRunOnce,
               initRunOnce, g_branchTrampoline, g_localTrampoline, events, s_log,
               attaches, writes, calls, bodyRuns, creates, lastCall, crashed>>
lifeVars == <<lifeQuiet, logFile, console>>
iatVars  == <<iatIn, iatOut>>
expVars  == <<expIn, expOut>>
rttiVars == <<rttiIn, rttiOut>>
cfgVars  == <<cfgEnv, s_configPath, cfgCall, cfgOut>>
vars     == <<lifeVars, iatVars, expVars, rttiVars, cfgVars>>

\* ------------------------------------------------------------------------
\* Bounds of the model
\* ------------------------------------------------------------------------
MaxAttach == 2      \* calls of StartSFSE
MaxCalls  == 2      \* calls the host makes through each slot
StackDepth == 3     \* nested calls the stack holds before it is exhausted
MaxDescs  == 2      \* import descriptors in a table given to getIATAddr
MaxThunks == 2      \* thunks of one import descriptor
MaxFuncs  == 3      \* NumberOfFunctions of an export directory
MaxNames  == 2      \* NumberOfNames of an export directory
MaxHead   == 4      \* freely chosen leading characters of a type-descriptor name
MaxValueLen == 2    \* characters of a value in the configuration file
MaxLookups  == 2    \* calls of getConfigOption_u32

\* ------------------------------------------------------------------------
\* Strings, pointers
\* ------------------------------------------------------------------------
nullptr == 0                 \* a null data pointer
NullFn  == "nullptr"         \* a null function pointer

CRT_DLL       == "api-ms-win-crt-runtime-l1-1-0.dll"
CRT_DLL_UPPER == "API-MS-WIN-CRT-RUNTIME-L1-1-0.DLL"
INITTERM      == "_initterm_e"
INITTERM_UPPER == "_INITTERM_E"
CMDLINE       == "_get_narrow_winmain_command_line"

\* tolower over the names the model uses (the upper-case spellings are the
\* only ones that change)
tolower(s) ==
    CASE s = CRT_DLL_UPPER  -> CRT_DLL
      [] s = INITTERM_UPPER -> INITTERM
      [] s = "UCRTBASE.DLL" -> "ucrtbase.dll"
      [] s = "EXIT"         -> "exit"
      [] OTHER              -> s

\* _stricmp: 0 when the two strings are equal up to case
stricmp(a, b) == IF tolower(a) = tolower(b) THEN 0 ELSE 1

\* ------------------------------------------------------------------------
\* Import tables
\* ------------------------------------------------------------------------
ByName(n)    == [byOrdinal |-> FALSE, Name |-> n,  Ordinal |-> 0]
ByOrdinal(o) == [byOrdinal |-> TRUE,  Name |-> "", Ordinal |-> o]

\* the descriptor at position d (1-based) of a table: its IAT starts at RVA 256*d
Descriptor(d, dll, thunks) == [Name |-> dll, FirstThunk |-> 256 * d, thunks |-> thunks]

\* address of the j-th (1-based) IAT cell of descriptor desc in an image at base
CellAddr(base, desc, j) == base + desc.FirstThunk + 8 * (j - 1)

\* the thunk loop with only thunkData advancing
RECURSIVE ScanThunksFrozen(_, _, _, _)
ScanThunksFrozen(thunks, j, iat, searchImportName) ==
    IF j > Len(thunks) THEN nullptr
    ELSE IF ~thunks[j].byOrdinal /\ stricmp(thunks[j].Name, searchImportName) = 0
         THEN iat
         ELSE ScanThunksFrozen(thunks, j + 1, iat, searchImportName)

\* the thunk loop of getIATAddr: thunkData and iat advance together
RECURSIVE ScanThunks(_, _, _, _)
ScanThunks(thunks, j, iat, searchImportName) ==
    IF j > Len(thunks) THEN nullptr                       \* u1.Ordinal = 0 ends the array
    ELSE IF ~thunks[j].byOrdinal /\ stricmp(thunks[j].Name, searchImportName) = 0
         THEN iat
         ELSE ScanThunks(thunks, j + 1, iat + 8, searchImportName)

\* the descriptor loop of getIATAddr
RECURSIVE ScanDescriptors(_, _, _, _, _)
ScanDescriptors(base, table, d, searchDllName, searchImportName) ==
    IF d > Len(table) THEN nullptr                        \* Characteristics = 0 ends the table
    ELSE IF stricmp(table[d].Name, searchDllName) = 0
         THEN ScanThunks(table[d].thunks, 1, base + table[d].FirstThunk, searchImportName)
         ELSE ScanDescriptors(base, table, d + 1, searchDllName, searchImportName)

getIATAddr(module, searchDllName, searchImportName) ==
    ScanDescriptors(module.base, module.importTable, 1, searchDllName, searchImportName)

\* ------------------------------------------------------------------------
\* The host image
\* ------------------------------------------------------------------------
HostInitterm == "ucrt!_initterm_e"
HostCmdline  == "ucrt!_get_narrow_winmain_command_line"
HookInitterm == "sfse!__initterm_e_Hook"
HookCmdline  == "sfse!__get_narrow_winmain_command_line_Hook"

\* how the host imports one of the two functions
ImportKinds == {"name", "ordinal", "otherdll", "static"}

CrtThunk(kind, name, ord) ==
    IF kind = "name" THEN <<ByName(name)>>
    ELSE IF kind = "ordinal" THEN <<ByOrdinal(ord)>>
    ELSE <<>>

OtherThunk(kind, name) == IF kind = "otherdll" THEN <<ByName(name)>> ELSE <<>>

HostTable(dll, k1, k2) ==
    << Descriptor(1, "KERNEL32.dll", <<ByName("Sleep")>>),
       Descriptor(2, dll, <<ByName("exit")>> \o CrtThunk(k1, INITTERM, 41)
                                             \o CrtThunk(k2, CMDLINE, 42)),
       Descriptor(3, "ucrtbase.dll", <<ByName("abort")>> \o OtherThunk(k1, INITTERM)
                                                        \o OtherThunk(k2, CMDLINE)) >>

\* what the loader bound a thunk to
BoundTo(t) ==
    IF t.byOrdinal
    THEN (IF t.Ordinal = 41 THEN HostInitterm ELSE HostCmdline)
    ELSE IF t.Name = INITTERM THEN HostInitterm
    ELSE IF t.Name = CMDLINE THEN HostCmdline
    ELSE t.Name

InitialIAT(base, table) ==
    [ a \in { CellAddr(base, table[d], j) : d \in 1..Len(table), j \in 1..3 } |->
        LET dj == CHOOSE p \in (1..Len(table)) \X (1..3) :
                      CellAddr(base, table[p[1]], p[2]) = a
            th == table[dj[1]].thunks
        IN IF dj[2] <= Len(th) THEN BoundTo(th[dj[2]]) ELSE "unused" ]

\* the cell the host's own startup code calls a function through (nullptr: the
\* function is linked statically and no import cell exists)
SlotOf(iat, fn) ==
    IF \E a \in DOMAIN iat : iat[a] = fn
    THEN CHOOSE a \in DOMAIN iat : iat[a] = fn
    ELSE nullptr

HostImage(dll, k1, k2) ==
    LET base  == 4096
        table == HostTable(dll, k1, k2)
        iat   == InitialIAT(base, table)
    IN [ base |-> base, importTable |-> table, iat |-> iat,
         slotInitterm |-> SlotOf(iat, HostInitterm),
         slotCmdline  |-> SlotOf(iat, HostCmdline) ]

HostImages ==
    { HostImage(dll, k1, k2) : dll \in {CRT_DLL, CRT_DLL_UPPER},
                               k1 \in ImportKinds, k2 \in ImportKinds }

\* ------------------------------------------------------------------------
\* DebugLog (sfse_common/Log.cpp)
\* ------------------------------------------------------------------------
\* the severities, most severe first (the order of DebugLog::LogLevel)
LogLevels == <<"FatalError", "Error", "Warning", "Message", "VerboseMessage", "DebugMessage">>
LevelNo(l) == CHOOSE i \in 1..Len(LogLevels) : LogLevels[i] = l
s_fileLevel  == "DebugMessage"
s_printLevel == "Message"

\* DebugLog::log on a list of <<level, text>> entries: what reaches the file
\* and what reaches stdout
ToFile(handle, entries) ==
    IF handle = "open"
    THEN SelectSeq(entries, LAMBDA e : LevelNo(e[1]) <= LevelNo(s_fileLevel))
    ELSE <<>>
ToConsole(entries) ==
    SelectSeq(entries, LAMBDA e : LevelNo(e[1]) <= LevelNo(s_printLevel))

ERR_INITTERM == <<"Error", "couldn't find _initterm_e">>
ERR_CMDLINE  == <<"Error", "couldn't find _get_narrow_winmain_command_line">>
ERR_BRANCH   == <<"Error", "couldn't create branch trampoline. this is fatal. skipping remainder of init process.">>
ERR_LOCAL    == <<"Error", "couldn't create codegen buffer. this is fatal. skipping remainder of init process.">>
MSG_BANNER   == <<"Message", "SFSE runtime: initialize">>
MSG_IMAGEBASE == <<"Message", "imagebase">>
MSG_RELOCBASE == <<"Message", "reloc mgr imagebase">>
MSG_PREINIT  == <<"Message", "preinit complete">>
MSG_INIT     == <<"Message", "init complete">>

\* ------------------------------------------------------------------------
\* installBaseHooks / StartSFSE
\* ------------------------------------------------------------------------
\* one slot of installBaseHooks: m is the table as the previous slot left it;
\* the result is the table, the saved original and the error lines afterwards
HookSlot(m, slot, original, hookFn, err) ==
    IF slot # nullptr
    THEN [mem |-> [m EXCEPT ![slot] = hookFn], original |-> m[slot], errs |-> <<>>,
          wrote |-> {slot}]
    ELSE [mem |-> m, original |-> original, errs |-> <<err>>, wrote |-> {}]

FATAL_FOLDER == <<"FatalError", "Your virus scanner is blocking access to your My Documents folder.">>

\* DebugLog::openRelative with SHGetFolderPath failing: the fatal message,
\* then ASSERT_CODE ends the process
OpenRelativeAborts ==
    /\ logFile' = logFile \o ToFile(s_log, <<FATAL_FOLDER>>)
    /\ console' = console \o ToConsole(<<FATAL_FOLDER>>)
    /\ crashed' = TRUE
    /\ UNCHANGED <<s_log, mem, initterm_e_Original, cmdline_Original, writes, attaches>>

\* the state installBaseHooks leaves: the log reopened (handle is what
\* _fsopen returned), the two slots as h1 and h2 left them
Installed(handle, h1, h2) ==
    /\ s_log' = handle                                      \* DebugLog::open
    /\ mem' = h2.mem
    /\ initterm_e_Original' = h1.original
    /\ cmdline_Original' = h2.original
    /\ logFile' = (IF handle = "open" THEN <<>> ELSE logFile) \o ToFile(handle, h1.errs \o h2.errs)
    /\ console' = console \o ToConsole(h1.errs \o h2.errs)
    /\ writes' = [a \in DOMAIN writes |->
                     writes[a] + (IF a \in h1.wrote THEN 1 ELSE 0)
                               + (IF a \in h2.wrote THEN 1 ELSE 0)]
    /\ attaches' = attaches + 1
    /\ crashed' = crashed

\* installBaseHooks giving up at the first slot it cannot resolve
installBaseHooksEarlyReturn(opened) ==
    IF opened = "abort" THEN OpenRelativeAborts
    ELSE LET initterm == getIATAddr(host, CRT_DLL, INITTERM)
             cmdline  == getIATAddr(host, CRT_DLL, CMDLINE)
             h1 == HookSlot(mem, initterm, initterm_e_Original, HookInitterm, ERR_INITTERM)
             h2 == IF initterm = nullptr
                   THEN [mem |-> h1.mem, original |-> cmdline_Original, errs |-> <<>>, wrote |-> {}]
                   ELSE HookSlot(h1.mem, cmdline, cmdline_Original, HookCmdline, ERR_CMDLINE)
         IN Installed(opened, h1, h2)

\* opened: what became of the log file ("open", "null": _fsopen failed,
\* "abort": SHGetFolderPath failed)
installBaseHooks(opened) ==
    IF opened = "abort" THEN OpenRelativeAborts
    ELSE LET initterm == getIATAddr(host, CRT_DLL, INITTERM)
             cmdline  == getIATAddr(host, CRT_DLL, CMDLINE)
             h1 == HookSlot(mem, initterm, initterm_e_Original, HookInitterm, ERR_INITTERM)
             h2 == HookSlot(h1.mem, cmdline, cmdline_Original, HookCmdline, ERR_CMDLINE)
         IN Installed(opened, h1, h2)

\* attaches counts the calls that returned
StartSFSE ==
    /\ ~crashed
    /\ attaches < MaxAttach
    /\ \E opened \in {"open", "null", "abort"} : installBaseHooks(opened)
    /\ UNCHANGED <<host, preinitRunOnce, initRunOnce, g_branchTrampoline,
                   g_localTrampoline, events, calls, bodyRuns, creates,
                   lastCall>>

\* ------------------------------------------------------------------------
\* SFSE_Preinit / SFSE_Initialize
\* ------------------------------------------------------------------------
Created(ok) == IF ok THEN "created" ELSE "failed"

\* (release build: the _DEBUG wait for a debugger is compiled out)
SFSE_Preinit(branchOk, localOk) ==
    IF preinitRunOnce
    THEN UNCHANGED <<preinitRunOnce, g_branchTrampoline, g_localTrampoline, events,
                     logFile, console, bodyRuns, creates>>
    ELSE LET banner == <<MSG_BANNER, MSG_IMAGEBASE, MSG_RELOCBASE>>
             said == IF ~branchOk THEN banner \o <<ERR_BRANCH>>
                     ELSE IF ~localOk THEN banner \o <<ERR_LOCAL>>
                     ELSE banner \o <<MSG_PREINIT>>
         IN /\ preinitRunOnce' = TRUE
            /\ bodyRuns' = [bodyRuns EXCEPT !.preinit = @ + 1]
            /\ g_branchTrampoline' = Created(branchOk)
            /\ g_localTrampoline' = IF branchOk THEN Created(localOk) ELSE g_localTrampoline
            /\ creates' = [branch |-> creates.branch + 1,
                           local  |-> creates.local + (IF branchOk THEN 1 ELSE 0)]
            /\ events' = IF branchOk /\ localOk
                         THEN events \o <<"init", "installPlugins(kPhase_Preload)">>
                         ELSE events
            /\ logFile' = logFile \o ToFile(s_log, said)
            /\ console' = console \o ToConsole(said)

SFSE_Initialize ==
    IF initRunOnce
    THEN UNCHANGED <<initRunOnce, events, logFile, console, bodyRuns>>
    ELSE /\ initRunOnce' = TRUE
         /\ bodyRuns' = [bodyRuns EXCEPT !.initialize = @ + 1]
         /\ events' = events \o <<"installPlugins(kPhase_Load)", "loadComplete",
                                  "Hooks_Version_Apply", "Hooks_Script_Apply",
                                  "FlushInstructionCache", "DebugLog::flush">>
         /\ logFile' = logFile \o ToFile(s_log, <<MSG_INIT>>)
         /\ console' = console \o ToConsole(<<MSG_INIT>>)

\* ------------------------------------------------------------------------
\* The hooks, and the host calling through the two slots
\* ------------------------------------------------------------------------
\* where a call of function pointer f ends: the hook passes it on to the saved
\* original; an original that is the hook again recurses without end (the
\* call never returns to the host: "no return"); a null pointer faults
RECURSIVE Callee(_, _, _, _)
Callee(f, hookFn, original, depth) ==
    IF depth = 0 THEN "no return"
    ELSE IF f = NullFn THEN "access violation"
    ELSE IF f = hookFn THEN Callee(original, hookFn, original, depth - 1)
    ELSE f

Died(callee) == callee \in {"no return", "access violation"}

\* the record of one call through a slot: who was reached, with what, and
\* what came back to the host
CallRecord(slot, f, hookFn, original, arg, origRet) ==
    LET callee == Callee(f, hookFn, original, StackDepth)
    IN [ slot |-> slot, viaHook |-> (f = hookFn), arg |-> arg, callee |-> callee,
         calleeArg |-> IF Died(callee) THEN "none" ELSE arg,
         origRet   |-> IF Died(callee) THEN "none" ELSE origRet,
         ret       |-> IF Died(callee) THEN "none" ELSE origRet ]

InittermArgs == {"xi_a..xi_z", "xc_a..xc_z"}     \* the (a, b) pairs the host passes
InittermRets == {"r0", "r1"}                     \* what the original returns
CmdlineRets  == {"game.exe", "game.exe -x"}

\* __initterm_e_Hook
initterm_e_Hook(arg, branchOk, localOk, origRet) ==
    /\ SFSE_Preinit(branchOk, localOk)
    /\ lastCall' = CallRecord(INITTERM, HookInitterm, HookInitterm,
                              initterm_e_Original, arg, origRet)

\* __get_narrow_winmain_command_line_Hook
get_narrow_winmain_command_line_Hook(origRet) ==
    /\ SFSE_Initialize
    /\ lastCall' = CallRecord(CMDLINE, HookCmdline, HookCmdline,
                              cmdline_Original, "void", origRet)

\* the host's startup code calls _initterm_e through its import cell
CallInitterm ==
    /\ ~crashed
    /\ host.slotInitterm # nullptr
    /\ calls.initterm < MaxCalls
    /\ calls' = [calls EXCEPT !.initterm = @ + 1,
                             !.hookInitterm = @ + (IF mem[host.slotInitterm] = HookInitterm THEN 1 ELSE 0)]
    /\ \E arg \in InittermArgs, origRet \in InittermRets, branchOk \in BOOLEAN, localOk \in BOOLEAN :
          IF mem[host.slotInitterm] = HookInitterm
          THEN initterm_e_Hook(arg, branchOk, localOk, origRet)
          ELSE /\ lastCall' = CallRecord(INITTERM, mem[host.slotInitterm], HookInitterm,
                                         initterm_e_Original, arg, origRet)
               /\ UNCHANGED <<preinitRunOnce, g_branchTrampoline, g_localTrampoline,
                              events, logFile, console, bodyRuns, creates>>
    /\ crashed' = Died(lastCall'.callee)
    /\ UNCHANGED <<host, mem, initterm_e_Original, cmdline_Original, initRunOnce,
                   s_log, attaches, writes>>

\* the host's startup code calls _get_narrow_winmain_command_line through its import cell
CallCmdline ==
    /\ ~crashed
    /\ host.slotCmdline # nullptr
    /\ calls.cmdline < MaxCalls
    /\ calls' = [calls EXCEPT !.cmdline = @ + 1,
                             !.hookCmdline = @ + (IF mem[host.slotCmdline] = HookCmdline THEN 1 ELSE 0)]
    /\ \E origRet \in CmdlineRets :
          IF mem[host.slotCmdline] = HookCmdline
          THEN get_narrow_winmain_command_line_Hook(origRet)
          ELSE /\ lastCall' = CallRecord(CMDLINE, mem[host.slotCmdline], HookCmdline,
                                         cmdline_Original, "void", origRet)
               /\ UNCHANGED <<initRunOnce, events, logFile, console, bodyRuns>>
    /\ crashed' = Died(lastCall'.callee)
    /\ UNCHANGED <<host, mem, initterm_e_Original, cmdline_Original, preinitRunOnce,
                   g_branchTrampoline, g_localTrampoline, s_log, attaches, writes,
                   creates>>

NoCall == [slot |-> "none", viaHook |-> FALSE, arg |-> "none", callee |-> "none",
           calleeArg |-> "none", origRet |-> "none", ret |-> "none"]

LifeInit ==
    /\ host \in HostImages
    /\ mem = host.iat
    /\ initterm_e_Original = NullFn
    /\ cmdline_Original = NullFn
    /\ preinitRunOnce = FALSE
    /\ initRunOnce = FALSE
    /\ g_branchTrampoline = "none"
    /\ g_localTrampoline = "none"
    /\ events = <<>>
    /\ s_log = "null"
    /\ logFile = <<>>
    /\ console = <<>>
    /\ attaches = 0
    /\ writes = [a \in DOMAIN host.iat |-> 0]
    /\ calls = [initterm |-> 0, cmdline |-> 0, hookInitterm |-> 0, hookCmdline |-> 0]
    /\ bodyRuns = [preinit |-> 0, initialize |-> 0]
    /\ creates = [branch |-> 0, local |-> 0]
    /\ lastCall = NoCall
    /\ crashed = FALSE

LifeIdle ==
    /\ host = "idle" /\ mem = "idle" /\ initterm_e_Original = NullFn
    /\ cmdline_Original = NullFn /\ preinitRunOnce = FALSE /\ initRunOnce = FALSE
    /\ g_branchTrampoline = "none" /\ g_localTrampoline = "none" /\ events = <<>>
    /\ s_log = "null" /\ logFile = <<>> /\ console = <<>> /\ attaches = 0
    /\ writes = "idle" /\ calls = "idle" /\ bodyRuns = "idle" /\ creates = "idle"
    /\ lastCall = NoCall /\ crashed = FALSE

IatIdle  == iatIn = "idle" /\ iatOut = [done |-> TRUE, result |-> nullptr]
ExpIdle  == expIn = "idle" /\ expOut = [done |-> TRUE, result |-> nullptr]
RttiIdle == rttiIn = "idle" /\ rttiOut = [done |-> TRUE, result |-> "idle"]
CfgIdle  == cfgEnv = "idle" /\ s_configPath = <<>> /\ cfgCall = "idle" /\ cfgOut = "idle"

Init == LifeInit /\ IatIdle /\ ExpIdle /\ RttiIdle /\ CfgIdle

Next ==
    \/ StartSFSE /\ UNCHANGED <<iatVars, expVars, rttiVars, cfgVars>>
    \/ CallInitterm /\ UNCHANGED <<iatVars, expVars, rttiVars, cfgVars>>
    \/ CallCmdline /\ UNCHANGED <<iatVars, expVars, rttiVars, cfgVars>>

Spec == Init /\ [][Next]_vars

\* The start-up the loader and the C runtime produce: StartSFSE once, before
\* the host's entry code runs; _initterm_e before the global initializers and
\* _get_narrow_winmain_command_line after them.
LoaderStartSFSE == attaches < 1 /\ StartSFSE
StartupInitterm == attaches >= 1 /\ calls.cmdline = 0 /\ CallInitterm
StartupCmdline  == attaches >= 1 /\ (host.slotInitterm = nullptr \/ calls.initterm >= 1) /\ CallCmdline

NextStartup ==
    \/ LoaderStartSFSE /\ UNCHANGED <<iatVars, expVars, rttiVars, cfgVars>>
    \/ StartupInitterm /\ UNCHANGED <<iatVars, expVars, rttiVars, cfgVars>>
    \/ StartupCmdline /\ UNCHANGED <<iatVars, expVars, rttiVars, cfgVars>>

SpecStartup == Init /\ [][NextStartup]_vars

\* ------------------------------------------------------------------------
\* Claims about the life cycle
\* ------------------------------------------------------------------------
ResolvedInitterm == getIATAddr(host, CRT_DLL, INITTERM)
ResolvedCmdline  == getIATAddr(host, CRT_DLL, CMDLINE)

Count(seq, e) == Cardinality({i \in 1..Len(seq) : seq[i] = e})
Pos(seq, e) == IF \E i \in 1..Len(seq) : seq[i] = e
               THEN CHOOSE i \in 1..Len(seq) : seq[i] = e /\ \A k \in 1..(i - 1) : seq[k] # e
               ELSE 0
InSeq(seq, e) == \E i \in 1..Len(seq) : seq[i] = e

HostOriginalOf(slot) == IF slot = INITTERM THEN HostInitterm ELSE HostCmdline

\* the last call entered a hook, reached the host's original function with
\* the caller's arguments and handed its return value back unchanged
Delegated ==
    /\ lastCall.callee = HostOriginalOf(lastCall.slot)
    /\ lastCall.calleeArg = lastCall.arg
    /\ lastCall.ret = lastCall.origRet

\* C1: hook-once. For each hooked slot, over any N >= 1 calls through it, the
\* one-time body of SFSE_Preinit (SFSE_Initialize) has run exactly once, from
\* the first call on, and every call through the hook reaches the saved
\* original with the caller's arguments and returns its value unchanged.
C1_HookOnce ==
    /\ bodyRuns.preinit = (IF calls.hookInitterm >= 1 THEN 1 ELSE 0)
    /\ bodyRuns.initialize = (IF calls.hookCmdline >= 1 THEN 1 ELSE 0)
    /\ lastCall.viaHook => Delegated

\* C2: phase ordering. In every execution installPlugins(kPhase_Load) begins
\* only after PluginManager::init() and installPlugins(kPhase_Preload) have
\* run, and loadComplete() fires once, after installPlugins(kPhase_Load).
C2_PhaseOrdering ==
    /\ InSeq(events, "installPlugins(kPhase_Load)") =>
          /\ InSeq(events, "init")
          /\ InSeq(events, "installPlugins(kPhase_Preload)")
          /\ Pos(events, "init") < Pos(events, "installPlugins(kPhase_Preload)")
          /\ Pos(events, "installPlugins(kPhase_Preload)") < Pos(events, "installPlugins(kPhase_Load)")
    /\ Count(events, "loadComplete") <= 1
    /\ InSeq(events, "loadComplete") =>
          /\ InSeq(events, "installPlugins(kPhase_Load)")
          /\ Pos(events, "installPlugins(kPhase_Load)") < Pos(events, "loadComplete")
    /\ bodyRuns.initialize >= 1 => Count(events, "loadComplete") = 1

TrampolineFailed == g_branchTrampoline = "failed" \/ g_localTrampoline = "failed"

\* C5: a failed trampoline creation is fatal to the whole initialization
\* sequence: PluginManager::init() is never called, no plugin phase runs
\* (neither preload nor load nor loadComplete), the creation is not retried,
\* and the host's original function is still called.
C5_TrampolineFailureIsFatal ==
    TrampolineFailed =>
        /\ ~InSeq(events, "init")
        /\ ~InSeq(events, "installPlugins(kPhase_Preload)")
        /\ ~InSeq(events, "installPlugins(kPhase_Load)")
        /\ ~InSeq(events, "loadComplete")
        /\ creates.branch <= 1 /\ creates.local <= 1
        /\ lastCall.viaHook => Delegated

Logged(entry) == InSeq(console, entry)

\* C6: the two slots are installed independently. After installBaseHooks, a
\* slot getIATAddr does not resolve is not written (no cell holds its hook),
\* its saved original is unset, the error is logged and its phase never runs;
\* a slot that does resolve is saved and redirected whatever became of the other.
C6_IndependentSlots ==
    attaches >= 1 =>
        /\ ResolvedInitterm = nullptr =>
              /\ \A a \in DOMAIN mem : mem[a] # HookInitterm
              /\ host.slotInitterm # nullptr => writes[host.slotInitterm] = 0
              /\ initterm_e_Original = NullFn
              /\ Logged(ERR_INITTERM)
              /\ bodyRuns.preinit = 0 /\ ~preinitRunOnce
        /\ ResolvedCmdline = nullptr =>
              /\ \A a \in DOMAIN mem : mem[a] # HookCmdline
              /\ host.slotCmdline # nullptr => writes[host.slotCmdline] = 0
              /\ cmdline_Original = NullFn
              /\ Logged(ERR_CMDLINE)
              /\ bodyRuns.initialize = 0 /\ ~initRunOnce
        /\ ResolvedInitterm # nullptr =>
              /\ mem[ResolvedInitterm] = HookInitterm
              /\ initterm_e_Original # NullFn
              /\ writes[ResolvedInitterm] >= 1
              /\ ~Logged(ERR_INITTERM)
        /\ ResolvedCmdline # nullptr =>
              /\ mem[ResolvedCmdline] = HookCmdline
              /\ cmdline_Original # NullFn
              /\ writes[ResolvedCmdline] >= 1
              /\ ~Logged(ERR_CMDLINE)

\* one slot failed, the other was hooked, and the host has called through both
C6_Witness ==
    /\ attaches >= 1
    /\ ResolvedInitterm = nullptr /\ ResolvedCmdline # nullptr
    /\ calls.initterm >= 1 /\ calls.hookCmdline >= 1

\* C7: the hook record under repeated attach. After one or more calls of
\* StartSFSE each resolved slot has been written exactly once, holds the
\* replacement function, and the saved original is the value the slot held
\* before the first interception, never the replacement itself.
C7_HookRecord ==
    attaches >= 1 =>
        /\ ResolvedInitterm # nullptr =>
              /\ writes[ResolvedInitterm] = 1
              /\ mem[ResolvedInitterm] = HookInitterm
              /\ initterm_e_Original = host.iat[ResolvedInitterm]
              /\ initterm_e_Original # HookInitterm
        /\ ResolvedCmdline # nullptr =>
              /\ writes[ResolvedCmdline] = 1
              /\ mem[ResolvedCmdline] = HookCmdline
              /\ cmdline_Original = host.iat[ResolvedCmdline]
              /\ cmdline_Original # HookCmdline

\* ------------------------------------------------------------------------
\* getIATAddr on arbitrary import tables
\* ------------------------------------------------------------------------
SeqsUpTo(S, n) == UNION { [1..k -> S] : k \in 0..n }

IatThunks   == {ByName(INITTERM), ByName("exit"), ByOrdinal(41)}
IatDllNames == {CRT_DLL_UPPER, "ucrtbase.dll"}

ImportTables ==
    { [d \in 1..Len(t) |-> Descriptor(d, t[d].Name, t[d].thunks)] :
        t \in SeqsUpTo([Name : IatDllNames, thunks : SeqsUpTo(IatThunks, MaxThunks)], MaxDescs) }

IatInit ==
    /\ iatIn \in [ module : [base : {4096}, importTable : ImportTables],
                   searchDllName : {CRT_DLL},
                   searchImportName : {INITTERM_UPPER, "exit"} ]
    /\ iatOut = [done |-> FALSE, result |-> nullptr]

CallGetIATAddr ==
    /\ ~iatOut.done
    /\ iatOut' = [done |-> TRUE,
                  result |-> getIATAddr(iatIn.module, iatIn.searchDllName, iatIn.searchImportName)]
    /\ UNCHANGED iatIn

InitIAT == LifeIdle /\ IatInit /\ ExpIdle /\ RttiIdle /\ CfgIdle
NextIAT == CallGetIATAddr /\ UNCHANGED <<lifeVars, expVars, rttiVars, cfgVars>>
SpecIAT == InitIAT /\ [][NextIAT]_vars

IatTable == iatIn.module.importTable
DllMatches(d) == tolower(IatTable[d].Name) = tolower(iatIn.searchDllName)
ThunkMatches(d, j) ==
    /\ ~IatTable[d].thunks[j].byOrdinal
    /\ tolower(IatTable[d].thunks[j].Name) = tolower(iatIn.searchImportName)
IatCell(d, j) == CellAddr(iatIn.module.base, IatTable[d], j)
MatchingDescs == { d \in 1..Len(IatTable) : DllMatches(d) }
MatchingThunks(d) == { j \in 1..Len(IatTable[d].thunks) : ThunkMatches(d, j) }
Min(S) == CHOOSE x \in S : \A y \in S : x <= y

\* C4 as stated: whenever some descriptor matching dllName has a by-name
\* thunk matching symbolName, the result is the IAT cell at that thunk's index
\* in that descriptor; with no matching descriptor, or the symbol imported
\* only by ordinal, the result is nullptr.
C4_AnyMatchingDescriptor ==
    iatOut.done =>
        /\ \A d \in MatchingDescs : \A j \in MatchingThunks(d) : iatOut.result = IatCell(d, j)
        /\ (\A d \in MatchingDescs : MatchingThunks(d) = {}) => iatOut.result = nullptr

\* C4, amended: only the first descriptor matching dllName is searched, and
\* the result is the cell of its first by-name thunk matching symbolName;
\* nullptr when no descriptor matches or that descriptor has no such thunk.
C4_FirstMatchingDescriptor ==
    iatOut.done =>
        IF MatchingDescs = {} THEN iatOut.result = nullptr
        ELSE LET d == Min(MatchingDescs)
             IN IF MatchingThunks(d) = {} THEN iatOut.result = nullptr
                ELSE iatOut.result = IatCell(d, Min(MatchingThunks(d)))

\* the search found a cell that is neither in the first descriptor nor the
\* first cell of its descriptor, past a by-ordinal thunk
C4_Witness ==
    /\ iatOut.done /\ iatOut.result # nullptr
    /\ Min(MatchingDescs) = 2
    /\ Min(MatchingThunks(2)) = 2
    /\ IatTable[2].thunks[1].byOrdinal
    /\ iatOut.result = IatCell(2, 2)

\* ------------------------------------------------------------------------
\* getResourceLibraryProcAddress
\* ------------------------------------------------------------------------
\* (uintptr_t(module) & ~3): the handle of a library loaded as a data file
\* carries flags in its low two bits
AlignDown4(module) == module - (module % 4)

\* exportNameOrdinals[i], i counted from 0. The array has NumberOfNames
\* entries; an index past them reads the memory that follows the array.
NameOrdinalAt(dir, i) ==
    IF i < dir.NumberOfNames THEN dir.AddressOfNameOrdinals[i + 1]
    ELSE dir.beyond[i - dir.NumberOfNames + 1]

\* the loop of getResourceLibraryProcAddress, from index i on
RECURSIVE ExportLoop(_, _, _, _)
ExportLoop(base, dir, i, exportName) ==
    IF i >= dir.NumberOfFunctions THEN nullptr
    ELSE LET nameOrdinal == NameOrdinalAt(dir, i)
         IN IF /\ nameOrdinal < dir.NumberOfNames
               /\ dir.AddressOfNames[nameOrdinal + 1] = exportName        \* !strcmp
            THEN base + dir.AddressOfFunctions[i + 1]
            ELSE ExportLoop(base, dir, i + 1, exportName)

getResourceLibraryProcAddress(module, dir, exportName) ==
    ExportLoop(AlignDown4(module), dir, 0, exportName)

ExportNames == {"SFSEPlugin_Load", "SFSEPlugin_Preload", "SFSEPlugin_Version"}
IsInjective(q) == \A a, b \in 1..Len(q) : q[a] = q[b] => a = b

\* the export directories of well-formed images: distinct names, every name's
\* ordinal an index into the function array, distinct function RVAs; beyond
\* is what the image holds after the name-ordinal array
ExportDirs ==
    UNION { UNION {
        { [ NumberOfFunctions |-> nf, NumberOfNames |-> nn,
            AddressOfFunctions |-> [k \in 1..nf |-> 4096 + 16 * k],
            AddressOfNames |-> names,
            AddressOfNameOrdinals |-> ords,
            beyond |-> more ] :
            names \in { q \in [1..nn -> ExportNames] : IsInjective(q) },
            ords \in [1..nn -> 0..(nf - 1)],
            more \in [1..(IF nf > nn THEN nf - nn ELSE 0) -> {0, 1, 65535}] }
        : nn \in 0..(IF nf < MaxNames THEN nf ELSE MaxNames) }
        : nf \in 0..MaxFuncs }

ExpInit ==
    /\ expIn \in [ module : {8192, 8193, 8194}, dir : ExportDirs,
                   exportName : ExportNames ]
    /\ expOut = [done |-> FALSE, result |-> nullptr]

CallGetResourceLibraryProcAddress ==
    /\ ~expOut.done
    /\ expOut' = [done |-> TRUE,
                  result |-> getResourceLibraryProcAddress(expIn.module, expIn.dir, expIn.exportName)]
    /\ UNCHANGED expIn

InitExport == LifeIdle /\ IatIdle /\ ExpInit /\ RttiIdle /\ CfgIdle
NextExport == CallGetResourceLibraryProcAddress /\ UNCHANGED <<lifeVars, iatVars, rttiVars, cfgVars>>
SpecExport == InitExport /\ [][NextExport]_vars

NameIndex(dir, n) == CHOOSE k \in 1..dir.NumberOfNames : dir.AddressOfNames[k] = n
HasName(dir, n) == \E k \in 1..dir.NumberOfNames : dir.AddressOfNames[k] = n

\* C3: for every export directory and every exportName in its name array the
\* result is base + AddressOfFunctions[ordinal], ordinal being the entry of
\* the name-ordinal array at the name's index; for a name not in the array
\* the result is nullptr.
C3_ExportByNameOrdinal ==
    expOut.done =>
        IF HasName(expIn.dir, expIn.exportName)
        THEN expOut.result =
                AlignDown4(expIn.module)
                + expIn.dir.AddressOfFunctions[
                      expIn.dir.AddressOfNameOrdinals[NameIndex(expIn.dir, expIn.exportName)] + 1]
        ELSE expOut.result = nullptr

\* ------------------------------------------------------------------------
\* getObjectClassName
\* ------------------------------------------------------------------------
ScanLimit == 100            \* for (u32 i = 0; i < 100; i++)
PrefixLen == 4              \* result = type->name + 4
NUL == "\\0"
NoRtti == <<"<", "n", "o", " ", "r", "t", "t", "i", ">">>       \* "<no rtti>"

\* the characters of "Foo@@", repeated, to lengthen a name
ClassChars == <<"F", "o", "o", "@", "@">>
Pad(n) == [i \in 1..n |-> ClassChars[((i - 1) % Len(ClassChars)) + 1]]

\* the C string found at byte offset off (from 0) of bytes
RECURSIVE CStr(_, _)
CStr(bytes, off) ==
    IF off + 1 > Len(bytes) \/ bytes[off + 1] = NUL THEN <<>>
    ELSE <<bytes[off + 1]>> \o CStr(bytes, off + 1)

\* for (u32 i = 0; i < 100; i++) if (type->name[i] == 0) ...: is a NUL found
\* at an index from i up to the limit?
RECURSIVE FindsNul(_, _)
FindsNul(bytes, i) ==
    IF i >= ScanLimit THEN FALSE
    ELSE IF bytes[i + 1] = NUL THEN TRUE
    ELSE FindsNul(bytes, i + 1)

Sentinel == [sentinel |-> TRUE, offset |-> 0, text |-> NoRtti]

\* stripping only the two characters the test looks at
getObjectClassNameStripsTwo(obj) ==
    IF obj.fault THEN Sentinel
    ELSE IF obj.bytes[1] = "." /\ obj.bytes[2] = "?" /\ FindsNul(obj.bytes, 0)
         THEN [sentinel |-> FALSE, offset |-> 2, text |-> CStr(obj.bytes, 2)]
         ELSE Sentinel

\* obj: whether the pointer walk faults, and the bytes at type->name
getObjectClassName(obj) ==
    IF obj.fault THEN Sentinel                                  \* __except: return the default
    ELSE IF obj.bytes[1] = "." /\ obj.bytes[2] = "?" /\ FindsNul(obj.bytes, 0)
         THEN [sentinel |-> FALSE, offset |-> PrefixLen, text |-> CStr(obj.bytes, PrefixLen)]
         ELSE Sentinel

RttiHeads == SeqsUpTo({".", "?", "A", "V", "U"}, MaxHead)
RttiNames ==
    { h \o Pad(n) : h \in RttiHeads, n \in {0, 1, 5} } \cup
    { h \o Pad(ScanLimit - Len(h) + d) : h \in RttiHeads, d \in {-1, 0, 1} }
\* what the image holds after the name's terminator
RttiAfter == { <<"x", "y", NUL>>, <<NUL, "z", NUL>> }

RttiInit ==
    /\ rttiIn \in { [fault |-> f, name |-> n, bytes |-> n \o <<NUL>> \o a] :
                        f \in BOOLEAN, n \in RttiNames, a \in RttiAfter }
    /\ rttiOut = [done |-> FALSE, result |-> Sentinel]

CallGetObjectClassName ==
    /\ ~rttiOut.done
    /\ rttiOut' = [done |-> TRUE, result |-> getObjectClassName(rttiIn)]
    /\ UNCHANGED rttiIn

InitRTTI == LifeIdle /\ IatIdle /\ ExpIdle /\ RttiInit /\ CfgIdle
NextRTTI == CallGetObjectClassName /\ UNCHANGED <<lifeVars, iatVars, expVars, cfgVars>>
SpecRTTI == InitRTTI /\ [][NextRTTI]_vars

StartsWith(name, p) == Len(name) >= Len(p) /\ SubSeq(name, 1, Len(p)) = p
Drop(name, k) == SubSeq(name, k + 1, Len(name))
\* the terminator is among the characters the loop looks at
TerminatedInScan(name) == Len(name) < ScanLimit

\* C8 as stated: a name ".?AV" + class name terminated within the scanned
\* length gives the name without its first four characters; a name that does
\* not begin with the mangling marker ".?AV", or a faulting walk, gives the
\* sentinel "<no-rtti>".
C8_ClassNameAsStated ==
    rttiOut.done =>
        /\ (~rttiIn.fault /\ StartsWith(rttiIn.name, <<".", "?", "A", "V">>)
                /\ TerminatedInScan(rttiIn.name))
              => rttiOut.result.text = Drop(rttiIn.name, 4)
        /\ (rttiIn.fault \/ ~StartsWith(rttiIn.name, <<".", "?", "A", "V">>))
              => rttiOut.result.text = <<"<", "n", "o", "-", "r", "t", "t", "i", ">">>

\* C8, amended: the sentinel is "<no rtti>" and the test looks at the first
\* two characters only. A name ".?AV" + class name terminated within the
\* scanned length gives the name without its first four characters; a name
\* that does not begin with ".?", or a faulting walk, gives "<no rtti>".
C8_ClassName ==
    rttiOut.done =>
        /\ (~rttiIn.fault /\ StartsWith(rttiIn.name, <<".", "?", "A", "V">>)
                /\ TerminatedInScan(rttiIn.name))
              => /\ ~rttiOut.result.sentinel
                 /\ rttiOut.result.text = Drop(rttiIn.name, 4)
        /\ (rttiIn.fault \/ ~StartsWith(rttiIn.name, <<".", "?">>))
              => /\ rttiOut.result.sentinel
                 /\ rttiOut.result.text = <<"<", "n", "o", " ", "r", "t", "t", "i", ">">>

\* ".?AVFoo@@" was decoded to "Foo@@"
C8_Witness ==
    /\ rttiOut.done /\ ~rttiIn.fault
    /\ rttiIn.name = <<".", "?", "A", "V", "F", "o", "o", "@", "@">>
    /\ rttiOut.result.text = <<"F", "o", "o", "@", "@">>

\* C10: a result other than the sentinel points into the name, at or before
\* its terminating NUL: it is returned only for names of at least 4 characters.
C10_ResultInsideName ==
    (rttiOut.done /\ ~rttiOut.result.sentinel) =>
        /\ rttiOut.result.offset <= Len(rttiIn.name)
        /\ Len(rttiIn.name) >= 4

\* ------------------------------------------------------------------------
\* getConfigPath / getConfigOption / getConfigOption_u32
\* ------------------------------------------------------------------------
\* a path is the sequence of its components and separators
Slash == "\\"
RuntimePaths == { <<"C:", Slash, "Games", Slash, "Starfield.exe">>, <<"Starfield.exe">> }

\* runtimePath.rfind('\\'): the index of the last separator, 0 when there is none
RFindSlash(path) ==
    IF \E i \in 1..Len(path) : path[i] = Slash
    THEN CHOOSE i \in 1..Len(path) : path[i] = Slash /\ \A k \in (i + 1)..Len(path) : path[k] # Slash
    ELSE 0

getRuntimeDirectory(runtimePath) ==
    LET lastSlash == RFindSlash(runtimePath)
    IN IF lastSlash # 0 THEN SubSeq(runtimePath, 1, lastSlash) ELSE <<>>

\* the new value of the static s_configPath
getConfigPath(cached, runtimePath) ==
    IF cached = <<>>
    THEN LET dir == getRuntimeDirectory(runtimePath)
         IN IF dir # <<>> THEN dir \o <<"Data", Slash, "SFSE", Slash, "sfse.ini">> ELSE cached
    ELSE cached

ResultBufSize == 256        \* char resultBuf[256]

\* GetPrivateProfileString(section, key, NULL, resultBuf, sizeof(resultBuf), path):
\* the value of key in section of the file at path, cut to the buffer; the
\* empty default when the file, the section or the key is missing
GetPrivateProfileString(env, path, section, key) ==
    IF /\ env.file.exists
       /\ path = getRuntimeDirectory(env.runtimePath) \o <<"Data", Slash, "SFSE", Slash, "sfse.ini">>
       /\ section = env.file.section
       /\ key \in DOMAIN env.file.keys
    THEN LET v == env.file.keys[key]
         IN IF Len(v) > ResultBufSize - 1 THEN SubSeq(v, 1, ResultBufSize - 1) ELSE v
    ELSE <<>>

getConfigOption(configPath, env, section, key) ==
    IF configPath # <<>> THEN GetPrivateProfileString(env, configPath, section, key) ELSE <<>>

DigitChars == {"0", "7"}
DigitVal(c) == IF c = "7" THEN 7 ELSE 0
Half == 65536               \* a u32 is kept as two 16-bit halves: hi * 65536 + lo
U32Of(n) == [hi |-> (n \div Half) % Half, lo |-> n % Half]      \* for 0 <= n < 2^31

\* (acc * 10 + d) in u32 arithmetic
MulAdd10(acc, d) ==
    LET lo == acc.lo * 10 + d
    IN [hi |-> (acc.hi * 10 + lo \div Half) % Half, lo |-> lo % Half]

\* (0 - v) in u32 arithmetic
Negate(v) ==
    IF v.lo = 0 THEN [hi |-> (Half - v.hi) % Half, lo |-> 0]
    ELSE [hi |-> Half - 1 - v.hi, lo |-> Half - v.lo]

\* the digits %u consumes from position i on, as a number
RECURSIVE ScanDigits(_, _, _)
ScanDigits(data, i, acc) ==
    IF i > Len(data) \/ data[i] \notin DigitChars THEN acc
    ELSE ScanDigits(data, i + 1, MulAdd10(acc, DigitVal(data[i])))

\* sscanf_s(data, "%u", dataOut): the number of conversions, and *dataOut after
sscanf_u(data, dataOut) ==
    LET neg   == Len(data) >= 1 /\ data[1] = "-"
        start == IF neg THEN 2 ELSE 1
    IN IF start > Len(data) \/ data[start] \notin DigitChars
       THEN [n |-> 0, dataOut |-> dataOut]
       ELSE LET v == ScanDigits(data, start, U32Of(0))
            IN [n |-> 1, dataOut |-> IF neg THEN Negate(v) ELSE v]

\* clearing the caller's variable when nothing was read
getConfigOption_u32ClearsOnFailure(data, dataOut) ==
    IF data = <<>> THEN [ret |-> FALSE, dataOut |-> U32Of(0)]
    ELSE LET r == sscanf_u(data, dataOut)
         IN [ret |-> (r.n = 1), dataOut |-> IF r.n = 1 THEN r.dataOut ELSE U32Of(0)]

\* getConfigOption_u32 on the string getConfigOption returned
getConfigOption_u32(data, dataOut) ==
    IF data = <<>> THEN [ret |-> FALSE, dataOut |-> dataOut]
    ELSE LET r == sscanf_u(data, dataOut)
         IN [ret |-> (r.n = 1), dataOut |-> r.dataOut]

CfgValues  == SeqsUpTo({"0", "7", "a", "-"}, MaxValueLen)
CfgFiles ==
    { [exists |-> FALSE, section |-> "General", keys |-> <<>>] } \cup
    { [exists |-> TRUE, section |-> "General", keys |-> k] :
        k \in { <<>> } \cup { [x \in {"EnableDiagnostics"} |-> v] : v \in CfgValues } }

CfgInit ==
    /\ cfgEnv \in [runtimePath : RuntimePaths, file : CfgFiles]
    /\ s_configPath = <<>>
    /\ cfgCall \in [section : {""}, key : {""}, before : {U32Of(0)}]
    /\ cfgOut \in [count : {0}, ret : {FALSE}, data : {<<>>}, dataOut : {U32Of(0), U32Of(5)}]

\* bool ok = getConfigOption_u32(section, key, &dataOut)
CallGetConfigOptionU32 ==
    /\ cfgOut.count < MaxLookups
    /\ \E section \in {"General", "Display"}, key \in {"EnableDiagnostics", "LogLevel"} :
          LET path == getConfigPath(s_configPath, cfgEnv.runtimePath)
              data == getConfigOption(path, cfgEnv, section, key)
              r    == getConfigOption_u32(data, cfgOut.dataOut)
              said == IF s_configPath = <<>> /\ path # <<>>
                      THEN <<<<"Message", "config path">>>>
                      ELSE IF s_configPath = <<>>
                           THEN <<<<"Warning", "no slash in runtime path?">>>>
                           ELSE <<>>
          IN /\ s_configPath' = path
             /\ cfgCall' = [section |-> section, key |-> key, before |-> cfgOut.dataOut]
             /\ cfgOut' = [count |-> cfgOut.count + 1, ret |-> r.ret, data |-> data,
                           dataOut |-> r.dataOut]
             /\ logFile' = logFile \o ToFile(s_log, said)
             /\ console' = console \o ToConsole(said)
    /\ UNCHANGED cfgEnv

InitConfig == LifeIdle /\ IatIdle /\ ExpIdle /\ RttiIdle /\ CfgInit
NextConfig == CallGetConfigOptionU32 /\ UNCHANGED <<lifeQuiet, iatVars, expVars, rttiVars>>
SpecConfig == InitConfig /\ [][NextConfig]_vars

\* the file exists where the path of the runtime puts it, and holds the key
\* of the last call in its section
CfgFound ==
    /\ \E i \in 1..Len(cfgEnv.runtimePath) : cfgEnv.runtimePath[i] = Slash
    /\ cfgEnv.file.exists
    /\ cfgCall.section = cfgEnv.file.section
    /\ cfgCall.key \in DOMAIN cfgEnv.file.keys
CfgValue == cfgEnv.file.keys[cfgCall.key]

\* what %u makes of a value: an optional '-', then the longest run of digits,
\* which must not be empty; the number is taken modulo 2^32
SignLen(v) == IF Len(v) >= 1 /\ v[1] = "-" THEN 1 ELSE 0
DigitRun(v) ==
    CHOOSE k \in 0..Len(v) :
        /\ \A i \in (SignLen(v) + 1)..(SignLen(v) + k) : i <= Len(v) /\ v[i] \in DigitChars
        /\ (SignLen(v) + k + 1 <= Len(v) => v[SignLen(v) + k + 1] \notin DigitChars)
        /\ SignLen(v) + k <= Len(v)
Pow10(n) == IF n = 0 THEN 1 ELSE IF n = 1 THEN 10 ELSE IF n = 2 THEN 100 ELSE IF n = 3 THEN 1000 ELSE 10000
RECURSIVE SumFrom(_, _, _)
SumFrom(v, i, k) ==
    IF i > k THEN 0
    ELSE DigitVal(v[SignLen(v) + i]) * Pow10(k - i) + SumFrom(v, i + 1, k)
ParsesAsUnsigned(v) == DigitRun(v) >= 1
\* the run's number n is small here: n itself, or 2^32 - n after a '-'
UnsignedValue(v) ==
    LET n == SumFrom(v, 1, DigitRun(v))
    IN IF SignLen(v) = 1 /\ n > 0 THEN [hi |-> 65535, lo |-> 65536 - n]
       ELSE [hi |-> 0, lo |-> n]

\* C9: getConfigOption_u32 returns true exactly when the config file exists,
\* the key is present in the section and its value parses as an unsigned
\* integer, and then *dataOut is that value; with the config path empty, the
\* file absent or the key absent it returns false, leaves *dataOut unchanged,
\* and getConfigOption returns the empty string.
C9_ConfigLookup ==
    cfgOut.count >= 1 =>
        /\ cfgOut.ret = (CfgFound /\ ParsesAsUnsigned(CfgValue))
        /\ cfgOut.ret => cfgOut.dataOut = UnsignedValue(CfgValue)
        /\ ~CfgFound => (~cfgOut.ret /\ cfgOut.dataOut = cfgCall.before /\ cfgOut.data = <<>>)

\* the second lookup, the path now cached, found "70" and stored 70 over a
\* variable that a first, failed lookup had left at 5
C9_Witness ==
    /\ cfgOut.count = 2
    /\ CfgFound /\ CfgValue = <<"7", "0">>
    /\ cfgOut.ret /\ cfgOut.dataOut = [hi |-> 0, lo |-> 70] /\ cfgCall.before = [hi |-> 0, lo |-> 5]

====
